---- MODULE Spec2Model ----
(***************************************************************************)
(* A model of rand_bw.py: the four generator steps (lcg, park_miller,      *)
(* xorshift, multiply_with_carry), value_to_color, and the handlers of     *)
(* RNGVisualizerPro that read and write the grid, the statistics, the seed *)
(* entry, the status label and the is_generating flag.                     *)
(*                                                                         *)
(* Python's int is unbounded and its float is an IEEE-754 double; TLC's    *)
(* integers are 32 bits wide.  Python integers are therefore modelled as   *)
(* sign-and-magnitude numbers whose magnitude is a little-endian sequence  *)
(* of 15-bit limbs (no leading zero limb, so equal numbers are equal       *)
(* values), and a non-negative double as a pair [m, k] standing for        *)
(* m / 2^k with m below 2^53 after every rounding.                         *)
(***************************************************************************)
EXTENDS Integers, Sequences, FiniteSets, TLC

(***************************************************************************)
(* Unbounded naturals: sequences of limbs, least significant first.        *)
(***************************************************************************)
LimbBits == 15

\* F(x), with x evaluated first and once: an assignment "y = x" followed by
\* the statements F that use y.
Let(x, F(_)) == CHOOSE r \in {F(y) : y \in {x}} : TRUE

RECURSIVE Pow2(_)
Pow2(n) == IF n = 0 THEN 1 ELSE 2 * Pow2(n - 1)

Base == Pow2(LimbBits)

RECURSIVE NNorm(_)
NNorm(a) ==
    IF a = <<>> THEN <<>>
    ELSE IF a[Len(a)] = 0 THEN NNorm(SubSeq(a, 1, Len(a) - 1)) ELSE a

RECURSIVE NFromInt(_)
NFromInt(n) == IF n = 0 THEN <<>> ELSE <<n % Base>> \o NFromInt(n \div Base)

RECURSIVE NToInt(_)
NToInt(a) == IF a = <<>> THEN 0 ELSE a[1] + Base * NToInt(Tail(a))

NLimb(a, i) == IF i <= Len(a) THEN a[i] ELSE 0

RECURSIVE NCmpFrom(_, _, _)
NCmpFrom(a, b, i) ==
    IF i = 0 THEN 0
    ELSE IF a[i] < b[i] THEN -1
    ELSE IF a[i] > b[i] THEN 1
    ELSE NCmpFrom(a, b, i - 1)

NCmp(a, b) ==
    IF Len(a) < Len(b) THEN -1
    ELSE IF Len(a) > Len(b) THEN 1
    ELSE NCmpFrom(a, b, Len(a))

NMaxLen(a, b) == IF Len(a) >= Len(b) THEN Len(a) ELSE Len(b)

RECURSIVE NAddFrom(_, _, _, _)
NAddFrom(a, b, i, carry) ==
    IF i > NMaxLen(a, b)
    THEN IF carry = 0 THEN <<>> ELSE <<carry>>
    ELSE LET t == NLimb(a, i) + NLimb(b, i) + carry
         IN  <<t % Base>> \o NAddFrom(a, b, i + 1, t \div Base)

NAdd(a, b) == NAddFrom(a, b, 1, 0)

RECURSIVE NSubFrom(_, _, _, _)
NSubFrom(a, b, i, borrow) ==
    IF i > Len(a) THEN <<>>
    ELSE LET t == a[i] - NLimb(b, i) - borrow
         IN  IF t < 0
             THEN <<t + Base>> \o NSubFrom(a, b, i + 1, 1)
             ELSE <<t>> \o NSubFrom(a, b, i + 1, 0)

\* a - b for a >= b
NSub(a, b) == NNorm(NSubFrom(a, b, 1, 0))

RECURSIVE NMulLimbFrom(_, _, _, _)
NMulLimbFrom(a, k, i, carry) ==
    IF i > Len(a)
    THEN IF carry = 0 THEN <<>> ELSE <<carry>>
    ELSE LET t == a[i] * k + carry
         IN  <<t % Base>> \o NMulLimbFrom(a, k, i + 1, t \div Base)

\* a * k for a limb k
NMulLimb(a, k) == IF k = 0 THEN <<>> ELSE NMulLimbFrom(a, k, 1, 0)

NZeros(n) == [i \in 1..n |-> 0]

NShiftLimbs(a, n) == IF a = <<>> THEN <<>> ELSE NZeros(n) \o a

RECURSIVE NMulFrom(_, _, _)
NMulFrom(a, b, i) ==
    IF i > Len(b) THEN <<>>
    ELSE NAdd(NShiftLimbs(NMulLimb(a, b[i]), i - 1), NMulFrom(a, b, i + 1))

NMul(a, b) == NMulFrom(a, b, 1)

\* a * 2^k
NShl(a, k) == NShiftLimbs(NMulLimb(a, Pow2(k % LimbBits)), k \div LimbBits)

RECURSIVE NDivLimbFrom(_, _, _, _)
NDivLimbFrom(a, d, i, rem) ==
    IF i = 0 THEN <<>>
    ELSE Let(rem * Base + a[i], LAMBDA t :
             NDivLimbFrom(a, d, i - 1, t % d) \o <<t \div d>>)

\* a \div d for a limb d > 0
NDivLimb(a, d) == NNorm(NDivLimbFrom(a, d, Len(a), 0))

\* a \div 2^k
NShr(a, k) ==
    IF k \div LimbBits >= Len(a) THEN <<>>
    ELSE NDivLimb(SubSeq(a, (k \div LimbBits) + 1, Len(a)), Pow2(k % LimbBits))

RECURSIVE BitLenInt(_)
BitLenInt(n) == IF n = 0 THEN 0 ELSE 1 + BitLenInt(n \div 2)

NBitLen(a) ==
    IF a = <<>> THEN 0 ELSE LimbBits * (Len(a) - 1) + BitLenInt(a[Len(a)])

\* bit i (from 0) of a
NBit(a, i) == (NLimb(a, (i \div LimbBits) + 1) \div Pow2(i % LimbBits)) % 2

\* a % 2^k
NLowBits(a, k) ==
    IF k \div LimbBits >= Len(a) THEN a
    ELSE NNorm(SubSeq(a, 1, k \div LimbBits)
               \o <<a[(k \div LimbBits) + 1] % Pow2(k % LimbBits)>>)

\* the largest q <= est with q * d <= r
RECURSIVE NDivDigit(_, _, _)
NDivDigit(r, d, est) ==
    IF NCmp(NMulLimb(d, est), r) <= 0 THEN est ELSE NDivDigit(r, d, est - 1)

\* Long division, one limb of the dividend a at a time from the top.  The top
\* limb of d has its high bit set, so the quotient digit estimated from the two
\* top limbs of the running remainder is at most two too large.
NDivEstimate(r, d) ==
    LET n   == Len(d)
        top == NLimb(r, n + 1) * Base + NLimb(r, n)
    IN  IF top \div d[n] < Base THEN top \div d[n] ELSE Base - 1

RECURSIVE NDivModFrom(_, _, _, _)
NDivModFrom(a, d, j, qr) ==
    IF j = 0 THEN qr
    ELSE Let(NNorm(<<a[j]>> \o qr.r), LAMBDA r1 :
         Let(NDivDigit(r1, d, NDivEstimate(r1, d)), LAMBDA q :
         Let([q |-> <<q>> \o qr.q, r |-> NSub(r1, NMulLimb(d, q))], LAMBDA qr2 :
             NDivModFrom(a, d, j - 1, qr2))))

\* quotient and remainder of a by d > 0
NDivMod(a, d) ==
    Let(LimbBits - BitLenInt(d[Len(d)]), LAMBDA sh :
    Let(NShl(a, sh), LAMBDA a2 :
    Let(NShl(d, sh), LAMBDA d2 :
    Let(NDivModFrom(a2, d2, Len(a2), [q |-> <<>>, r |-> <<>>]), LAMBDA qr :
        [q |-> NNorm(qr.q), r |-> NShr(qr.r, sh)]))))

RECURSIVE XorBits(_, _)
XorBits(x, y) ==
    IF x = 0 THEN y
    ELSE IF y = 0 THEN x
    ELSE ((x + y) % 2) + 2 * XorBits(x \div 2, y \div 2)

RECURSIVE AndBits(_, _)
AndBits(x, y) ==
    IF x = 0 \/ y = 0 THEN 0
    ELSE (x % 2) * (y % 2) + 2 * AndBits(x \div 2, y \div 2)

\* the two operations on five bits, tabulated; a limb is three such groups
XorTable == [x \in 0..31 |-> [y \in 0..31 |-> XorBits(x, y)]]

AndTable == [x \in 0..31 |-> [y \in 0..31 |-> AndBits(x, y)]]

XorInt(x, y) ==
    XorTable[x % 32][y % 32]
    + 32 * XorTable[(x \div 32) % 32][(y \div 32) % 32]
    + 1024 * XorTable[x \div 1024][y \div 1024]

AndInt(x, y) ==
    AndTable[x % 32][y % 32]
    + 32 * AndTable[(x \div 32) % 32][(y \div 32) % 32]
    + 1024 * AndTable[x \div 1024][y \div 1024]

NXor(a, b) == NNorm([i \in 1..NMaxLen(a, b) |-> XorInt(NLimb(a, i), NLimb(b, i))])

NAnd(a, b) == NNorm([i \in 1..NMaxLen(a, b) |-> AndInt(NLimb(a, i), NLimb(b, i))])

\* a and not b
NAndNot(a, b) ==
    NNorm([i \in 1..Len(a) |-> a[i] - AndInt(a[i], NLimb(b, i))])

(***************************************************************************)
(* Python int: sign and magnitude, zero being non-negative.  The bitwise   *)
(* operators act on the infinite two's complement form, in which a         *)
(* negative x is the complement of |x| - 1.                                *)
(***************************************************************************)
ZMake(neg, mag) == [neg |-> neg /\ mag # <<>>, mag |-> mag]

ZNat(a) == [neg |-> FALSE, mag |-> a]

ZInt(n) == IF n < 0 THEN ZMake(TRUE, NFromInt(-n)) ELSE ZNat(NFromInt(n))

\* a small int as a number of the model checker
ZToInt(z) == IF z.neg THEN 0 - NToInt(z.mag) ELSE NToInt(z.mag)

ZCmp(x, y) ==
    IF x.neg /\ ~y.neg THEN -1
    ELSE IF ~x.neg /\ y.neg THEN 1
    ELSE IF x.neg THEN NCmp(y.mag, x.mag)
    ELSE NCmp(x.mag, y.mag)

ZAdd(x, y) ==
    IF x.neg = y.neg THEN ZMake(x.neg, NAdd(x.mag, y.mag))
    ELSE IF NCmp(x.mag, y.mag) >= 0 THEN ZMake(x.neg, NSub(x.mag, y.mag))
    ELSE ZMake(y.neg, NSub(y.mag, x.mag))

ZMul(x, y) == ZMake(x.neg # y.neg, NMul(x.mag, y.mag))

\* the remainder that takes the sign of the dividend, as % does in C
ZRem(x, d) ==
    Let(NDivMod(x.mag, d.mag).r, LAMBDA r : ZMake(x.neg, r))

\* x % d for d > 0: Python's remainder takes the sign of the divisor
ZMod(x, d) ==
    Let(NDivMod(x.mag, d.mag).r, LAMBDA r :
        IF x.neg /\ r # <<>> THEN ZNat(NSub(d.mag, r)) ELSE ZNat(r))

\* x << k
ZShl(x, k) == ZMake(x.neg, NShl(x.mag, k))

\* x >> k: the floor of x / 2^k
ZShr(x, k) ==
    IF x.neg
    THEN ZMake(TRUE, NAdd(NShr(NSub(x.mag, <<1>>), k), <<1>>))
    ELSE ZNat(NShr(x.mag, k))

\* x & y
ZAnd(x, y) ==
    IF ~x.neg /\ ~y.neg THEN ZNat(NAnd(x.mag, y.mag))
    ELSE IF x.neg /\ ~y.neg THEN ZNat(NAndNot(y.mag, NSub(x.mag, <<1>>)))
    ELSE IF ~x.neg /\ y.neg THEN ZNat(NAndNot(x.mag, NSub(y.mag, <<1>>)))
    ELSE LET a == NSub(x.mag, <<1>>)
             b == NSub(y.mag, <<1>>)
         IN  ZMake(TRUE, NAdd(NAdd(NXor(a, b), NAnd(a, b)), <<1>>))

\* x ^ y
ZXor(x, y) ==
    IF ~x.neg /\ ~y.neg THEN ZNat(NXor(x.mag, y.mag))
    ELSE IF x.neg /\ y.neg
    THEN ZNat(NXor(NSub(x.mag, <<1>>), NSub(y.mag, <<1>>)))
    ELSE IF x.neg
    THEN ZMake(TRUE, NAdd(NXor(NSub(x.mag, <<1>>), y.mag), <<1>>))
    ELSE ZMake(TRUE, NAdd(NXor(x.mag, NSub(y.mag, <<1>>)), <<1>>))

(***************************************************************************)
(* Decimal text.  A text is a sequence of one-character strings.           *)
(***************************************************************************)
Digits == <<"0", "1", "2", "3", "4", "5", "6", "7", "8", "9">>

IsDigit(c) == \E i \in 1..10 : Digits[i] = c

DigitVal(c) == (CHOOSE i \in 1..10 : Digits[i] = c) - 1

RECURSIVE NDecFrom(_, _, _)
NDecFrom(t, i, acc) ==
    IF i > Len(t) THEN acc
    ELSE Let(NAdd(NMulLimb(acc, 10), NFromInt(DigitVal(t[i]))), LAMBDA acc2 :
             NDecFrom(t, i + 1, acc2))

\* the natural a sequence of decimal digits denotes
NDec(t) == NDecFrom(t, 1, <<>>)

RECURSIVE StrNat(_)
StrNat(n) ==
    IF n < 10 THEN <<Digits[n + 1]>>
    ELSE StrNat(n \div 10) \o <<Digits[(n % 10) + 1]>>

HexDigits == <<"0", "1", "2", "3", "4", "5", "6", "7", "8", "9",
               "a", "b", "c", "d", "e", "f">>

HexUpper == <<"0", "1", "2", "3", "4", "5", "6", "7", "8", "9",
              "A", "B", "C", "D", "E", "F">>

IsHexDigit(c) == \E i \in 1..16 : HexDigits[i] = c \/ HexUpper[i] = c

HexVal(c) == (CHOOSE i \in 1..16 : HexDigits[i] = c \/ HexUpper[i] = c) - 1

RECURSIVE NHexFrom(_, _, _)
NHexFrom(t, i, acc) ==
    IF i > Len(t) THEN acc
    ELSE Let(NAdd(NMulLimb(acc, 16), NFromInt(HexVal(t[i]))), LAMBDA acc2 :
             NHexFrom(t, i + 1, acc2))

\* int(t, 16), and the value of the literal 0x<t>
NHex(t) == NHexFrom(t, 1, <<>>)

RECURSIVE StrHex(_)
StrHex(n) ==
    IF n < 16 THEN <<HexDigits[n + 1]>>
    ELSE StrHex(n \div 16) \o <<HexDigits[(n % 16) + 1]>>

\* f"{n:02x}": the sign, if any, counts towards the width of two
Hex02(n) ==
    IF n < 0 THEN <<"-">> \o StrHex(0 - n)
    ELSE IF n < 16 THEN <<"0">> \o StrHex(n)
    ELSE StrHex(n)

(***************************************************************************)
(* Python float, for the finite values value_to_color works with:          *)
(* [neg, m, k] is m / 2^k, negated when neg.  Every operation rounds its   *)
(* exact result to 53 significant bits, ties to even.                      *)
(***************************************************************************)
MantBits == 53

FMake(neg, m, k) == [neg |-> neg /\ m # <<>>, m |-> m, k |-> k]

FRound(neg, m, k, sticky) ==
    IF NBitLen(m) <= MantBits THEN FMake(neg, m, k)
    ELSE Let(NBitLen(m) - MantBits, LAMBDA drop :
         Let(NShr(m, drop), LAMBDA hi :
         Let(NCmp(NLowBits(m, drop), NShl(<<1>>, drop - 1)), LAMBDA c :
             FMake(neg,
                   IF c > 0 \/ (c = 0 /\ (sticky \/ NBit(hi, 0) = 1))
                   THEN NAdd(hi, <<1>>) ELSE hi,
                   k - drop))))

\* float(z) for an int z
FInt(z) == FRound(z.neg, z.mag, 0, FALSE)

\* a / b for ints a and b # 0: the double nearest the quotient
FDiv(a, b) ==
    IF a.mag = <<>> THEN FMake(FALSE, <<>>, 0)
    ELSE Let(MantBits + 2 - (NBitLen(a.mag) - NBitLen(b.mag)), LAMBDA need :
         Let(IF need > 0 THEN need ELSE 0, LAMBDA sh :
         Let(NDivMod(NShl(a.mag, sh), b.mag), LAMBDA qr :
             FRound(a.neg # b.neg, qr.q, sh, qr.r # <<>>))))

FMul(x, y) ==
    Let(NMul(x.m, y.m), LAMBDA p : FRound(x.neg # y.neg, p, x.k + y.k, FALSE))

FAdd(x, y) ==
    Let(IF x.k >= y.k THEN x.k ELSE y.k, LAMBDA k :
    Let(NShl(x.m, k - x.k), LAMBDA a :
    Let(NShl(y.m, k - y.k), LAMBDA b :
        IF x.neg = y.neg THEN FRound(x.neg, NAdd(a, b), k, FALSE)
        ELSE IF NCmp(a, b) >= 0 THEN FRound(x.neg, NSub(a, b), k, FALSE)
        ELSE FRound(y.neg, NSub(b, a), k, FALSE))))

\* int(x): truncation towards zero
FTrunc(x) ==
    ZMake(x.neg, IF x.k >= 0 THEN NShr(x.m, x.k) ELSE NShl(x.m, 0 - x.k))

\* the literals 0.1 and 0.9
F01 == FDiv(ZInt(1), ZInt(10))

F09 == FDiv(ZInt(9), ZInt(10))

(***************************************************************************)
(* RNG ALGORITHMS                                                          *)
(***************************************************************************)
Mask32 == ZNat(NHex(<<"F", "F", "F", "F", "F", "F", "F", "F">>))

Mask64 == ZNat(NHex(<<"F", "F", "F", "F", "F", "F", "F", "F",
                      "F", "F", "F", "F", "F", "F", "F", "F">>))

\* lcg in unsigned 64-bit arithmetic: the sum wraps at 2^64
lcg_wraps64(s) ==
    <<ZMod(ZAnd(ZAdd(ZMul(s, ZInt(9301)), ZInt(49297)), Mask64), ZInt(233280)),
      ZInt(233280)>>

lcg(s) ==
    <<ZMod(ZAdd(ZMul(s, ZInt(9301)), ZInt(49297)), ZInt(233280)), ZInt(233280)>>

park_miller(s) ==
    <<ZMod(ZMul(s, ZInt(16807)), ZInt(2147483647)), ZInt(2147483647)>>

\* xorshift with the guard many implementations have: a zero state is
\* replaced by 1 before the shifts
xorshift_reseeds_zero(s) ==
    Let(IF ZCmp(s, ZInt(0)) = 0 THEN ZInt(1) ELSE s, LAMBDA s0 :
    Let(ZXor(s0, ZAnd(ZShl(s0, 13), Mask32)), LAMBDA s1 :
    Let(ZXor(s1, ZShr(s1, 17)), LAMBDA s2 :
    Let(ZXor(s2, ZAnd(ZShl(s2, 5), Mask32)), LAMBDA s3 :
        <<ZAnd(s3, Mask32), Mask32>>))))

xorshift(s) ==
    Let(ZXor(s, ZAnd(ZShl(s, 13), Mask32)), LAMBDA s1 :
    Let(ZXor(s1, ZShr(s1, 17)), LAMBDA s2 :
    Let(ZXor(s2, ZAnd(ZShl(s2, 5), Mask32)), LAMBDA s3 :
        <<ZAnd(s3, Mask32), Mask32>>)))

multiply_with_carry(s) ==
    Let(ZNat(NDec(<<"4", "2", "9", "4", "9", "5", "7", "6", "6", "5">>)), LAMBDA a :
    Let(ZAnd(ZShr(s, 32), Mask32), LAMBDA c :
    Let(ZAnd(s, Mask32), LAMBDA x :
    Let(ZAnd(ZAdd(ZMul(a, x), c), Mask64), LAMBDA result :
        <<result, Mask64>>))))

AlgoNames ==
    {"Linear Congruential (LCG)", "Park-Miller", "Xorshift", "Multiply-with-Carry"}

ALGORITHMS ==
    [name \in AlgoNames |->
        CASE name = "Linear Congruential (LCG)" ->
                [func |-> "lcg", color |-> <<"#", "0", "0", "d", "4", "f", "f">>]
          [] name = "Park-Miller" ->
                [func |-> "park_miller", color |-> <<"#", "0", "0", "f", "f", "8", "8">>]
          [] name = "Xorshift" ->
                [func |-> "xorshift", color |-> <<"#", "f", "f", "a", "a", "0", "0">>]
          [] name = "Multiply-with-Carry" ->
                [func |-> "multiply_with_carry",
                 color |-> <<"#", "f", "f", "4", "4", "6", "6">>]]

\* algo_func(s)
Apply(func, s) ==
    CASE func = "lcg" -> lcg(s)
      [] func = "park_miller" -> park_miller(s)
      [] func = "xorshift" -> xorshift(s)
      [] func = "multiply_with_carry" -> multiply_with_carry(s)

(***************************************************************************)
(* UTILITY FUNCTIONS                                                       *)
(***************************************************************************)
\* base_gray rounded to the nearest integer: int(ratio * 200 + 20 + 0.5)
base_gray_rounds(v, mod) ==
    Let(FDiv(v, mod), LAMBDA ratio :
    Let(FMul(ratio, FInt(ZInt(200))), LAMBDA scaled :
    Let(FAdd(FAdd(scaled, FInt(ZInt(20))), FDiv(ZInt(1), ZInt(2))), LAMBDA sum :
        ZToInt(FTrunc(sum)))))

\* base_gray of value_to_color
base_gray(v, mod) ==
    Let(FDiv(v, mod), LAMBDA ratio :
    Let(FMul(ratio, FInt(ZInt(200))), LAMBDA scaled :
    Let(FAdd(scaled, FInt(ZInt(20))), LAMBDA sum :
        ZToInt(FTrunc(sum)))))

\* one channel before the cap: int(int(hex, 16) * 0.1 + base_gray * 0.9)
Channel(hex, gray) ==
    Let(FMul(FInt(ZNat(NHex(hex))), F01), LAMBDA tint :
    Let(FMul(FInt(ZInt(gray)), F09), LAMBDA base :
    Let(FAdd(tint, base), LAMBDA sum :
        ZToInt(FTrunc(sum)))))

Min(a, b) == IF a <= b THEN a ELSE b

value_to_color(v, mod, algorithm_color) ==
    Let(base_gray(v, mod), LAMBDA gray :
    Let(Channel(SubSeq(algorithm_color, 2, 3), gray), LAMBDA r :
    Let(Channel(SubSeq(algorithm_color, 4, 5), gray), LAMBDA g :
    Let(Channel(SubSeq(algorithm_color, 6, 7), gray), LAMBDA b :
        <<"#">> \o Hex02(Min(r, 255)) \o Hex02(Min(g, 255)) \o Hex02(Min(b, 255))))))

(***************************************************************************)
(* int(text): surrounding blanks are dropped, a sign may lead, and the     *)
(* rest is decimal digits, single underscores allowed between two digits.  *)
(* Anything else raises ValueError.                                        *)
(***************************************************************************)
RECURSIVE Strip(_)
Strip(t) ==
    IF t = <<>> THEN t
    ELSE IF t[1] = " " THEN Strip(Tail(t))
    ELSE IF t[Len(t)] = " " THEN Strip(SubSeq(t, 1, Len(t) - 1))
    ELSE t

Unsigned(t) ==
    IF Strip(t) # <<>> /\ Strip(t)[1] \in {"+", "-"} THEN Tail(Strip(t)) ELSE Strip(t)

IsIntText(t) ==
    LET u == Unsigned(t)
    IN  /\ u # <<>>
        /\ \A i \in 1..Len(u) :
              \/ IsDigit(u[i])
              \/ /\ u[i] = "_"
                 /\ 1 < i /\ i < Len(u)
                 /\ IsDigit(u[i - 1]) /\ IsDigit(u[i + 1])

IntOf(t) ==
    ZMake(Strip(t)[1] = "-", NDec(SelectSeq(Unsigned(t), IsDigit)))

\* str(n) for the result of random.randint(1, 999999)
Str(n) == StrNat(n)

Pad3(n) ==
    <<Digits[(n \div 100) + 1], Digits[((n \div 10) % 10) + 1], Digits[(n % 10) + 1]>>

RECURSIVE Group3(_)
Group3(a) ==
    IF NCmp(a, <<1000>>) < 0 THEN StrNat(NToInt(a))
    ELSE Let(NDivMod(a, <<1000>>), LAMBDA qr :
             Group3(qr.q) \o <<",">> \o Pad3(NToInt(qr.r)))

\* f"{z:,}" for an int z
FormatInt(z) == (IF z.neg THEN <<"-">> ELSE <<>>) \o Group3(z.mag)

\* float('inf'), and a number that is an int: what min_val can be
Inf == [inf |-> TRUE, val |-> ZInt(0)]

Fin(z) == [inf |-> FALSE, val |-> z]

\* f"{v:,}" for v either of these
FormatVal(v) == IF v.inf THEN <<"i", "n", "f">> ELSE FormatInt(v.val)

(***************************************************************************)
(* MAIN APPLICATION                                                        *)
(***************************************************************************)
PIXEL == 5

StatLabels ==
    {"Final Value", "Iterations", "Min Value", "Max Value", "Generation Time"}

VARIABLES
    GRID_W, GRID_H,        \* the grid dimensions, fixed for a run of the program
    current_algorithm,     \* the StringVar: the selected algorithm's name
    is_generating,         \* the in-progress flag
    seed_entry,            \* the text of the seed entry
    status_label,          \* the text of the status label
    grid_canvas,           \* the rectangles on the grid canvas, in creation order
    stats_items,           \* the text shown for each statistic
    last_run,              \* history: algorithm and seed of the run on display
    run_count,             \* history: the runs completed so far, up to MaxRuns
    step_func,             \* a step function called on its own: its name,
    step_state,            \*   the state it is called with next, the number
    step_count,            \*   of calls made and what the last call gave
    step_out

ui_vars == <<current_algorithm, is_generating, seed_entry, status_label,
             grid_canvas, stats_items>>

step_vars == <<step_func, step_state, step_count, step_out>>

vars == <<GRID_W, GRID_H, ui_vars, last_run, run_count, step_vars>>

None == "None"

\* the dash a statistic shows before the first run and after a clear
Dash == <<"-">>

\* the object's fields, as one value
Self ==
    [current_algorithm |-> current_algorithm,
     is_generating     |-> is_generating,
     seed_entry        |-> seed_entry,
     status_label      |-> status_label,
     grid_canvas       |-> grid_canvas,
     stats_items       |-> stats_items]

Becomes(self) ==
    /\ current_algorithm' = self.current_algorithm
    /\ is_generating' = self.is_generating
    /\ seed_entry' = self.seed_entry
    /\ status_label' = self.status_label
    /\ grid_canvas' = self.grid_canvas
    /\ stats_items' = self.stats_items

\* __init__ and the widgets it creates
InitSelf ==
    [current_algorithm |-> "Linear Congruential (LCG)",
     is_generating     |-> FALSE,
     seed_entry        |-> <<"1", "2", "3", "4", "5">>,
     status_label      |-> <<"Ready to generate visualization">>,
     grid_canvas       |-> <<>>,
     stats_items       |-> [label \in StatLabels |-> Dash]]

\* a minimum that stays at the first value it is given
MinVal_keeps_first(min_val, s) == IF min_val.inf THEN Fin(s) ELSE min_val

\* min(min_val, s), min_val starting at float('inf')
MinVal(min_val, s) ==
    IF min_val.inf THEN Fin(s)
    ELSE IF ZCmp(s, min_val.val) < 0 THEN Fin(s) ELSE min_val

\* max(max_val, s)
MaxVal(max_val, s) == IF ZCmp(s, max_val) > 0 THEN s ELSE max_val

\* the body of the two loops with the rectangle's corners transposed
Cell_transposed(algo_func, algo_color, x, y, acc) ==
    Let(Apply(algo_func, acc.s), LAMBDA out :
    Let(value_to_color(out[1], out[2], algo_color), LAMBDA color :
        [s          |-> out[1],
         last_value |-> out[1],
         min_val    |-> MinVal(acc.min_val, out[1]),
         max_val    |-> MaxVal(acc.max_val, out[1]),
         canvas     |-> Append(acc.canvas,
                               [x0 |-> y * PIXEL, y0 |-> x * PIXEL,
                                x1 |-> (y + 1) * PIXEL, y1 |-> (x + 1) * PIXEL,
                                fill |-> color])]))

\* the body of the two loops, for the cell at (x, y)
Cell(algo_func, algo_color, x, y, acc) ==
    Let(Apply(algo_func, acc.s), LAMBDA out :
    Let(value_to_color(out[1], out[2], algo_color), LAMBDA color :
        [s          |-> out[1],
         last_value |-> out[1],
         min_val    |-> MinVal(acc.min_val, out[1]),
         max_val    |-> MaxVal(acc.max_val, out[1]),
         canvas     |-> Append(acc.canvas,
                               [x0 |-> x * PIXEL, y0 |-> y * PIXEL,
                                x1 |-> (x + 1) * PIXEL, y1 |-> (y + 1) * PIXEL,
                                fill |-> color])]))

\* for x in range(GRID_W), from x on
RECURSIVE Row(_, _, _, _, _)
Row(algo_func, algo_color, x, y, acc) ==
    IF x >= GRID_W THEN acc
    ELSE Let(Cell(algo_func, algo_color, x, y, acc), LAMBDA acc2 :
             Row(algo_func, algo_color, x + 1, y, acc2))

\* the loop over the rows with one row too many: y runs up to GRID_H
RECURSIVE Rows_one_more(_, _, _, _)
Rows_one_more(algo_func, algo_color, y, acc) ==
    IF y > GRID_H THEN acc
    ELSE Let(Row(algo_func, algo_color, 0, y, acc), LAMBDA acc2 :
             Rows_one_more(algo_func, algo_color, y + 1, acc2))

\* for y in range(GRID_H), from y on
RECURSIVE Rows(_, _, _, _)
Rows(algo_func, algo_color, y, acc) ==
    IF y >= GRID_H THEN acc
    ELSE Let(Row(algo_func, algo_color, 0, y, acc), LAMBDA acc2 :
             Rows(algo_func, algo_color, y + 1, acc2))

\* the seed generate_visualization runs with: the entry's, or the drawn one
SeedOf(self, drawn) ==
    IF IsIntText(self.seed_entry) THEN IntOf(self.seed_entry) ELSE ZInt(drawn)

\* generate_visualization without its grid_canvas.delete("all"): the new
\* rectangles are added to the ones on the canvas
generate_visualization_keeps_canvas(self, drawn, elapsed) ==
    IF self.is_generating THEN self
    ELSE IF self.current_algorithm \notin DOMAIN ALGORITHMS
    THEN [self EXCEPT !.is_generating = TRUE,
                      !.status_label = <<"Generating...">>]
    ELSE Let(self.current_algorithm, LAMBDA algo_name :
         Let(SeedOf(self, drawn), LAMBDA seed :
         Let(Rows(ALGORITHMS[algo_name].func, ALGORITHMS[algo_name].color, 0,
                  [s |-> seed, last_value |-> seed,
                   min_val |-> Inf, max_val |-> ZInt(0),
                   canvas |-> self.grid_canvas]),
             LAMBDA end :
             [self EXCEPT
                !.is_generating = FALSE,
                !.seed_entry = IF IsIntText(self.seed_entry)
                               THEN self.seed_entry ELSE Str(drawn),
                !.grid_canvas = end.canvas,
                !.stats_items =
                    [label \in StatLabels |->
                        CASE label = "Final Value" -> FormatInt(end.last_value)
                          [] label = "Iterations" -> FormatInt(ZInt(GRID_W * GRID_H))
                          [] label = "Min Value" -> FormatVal(end.min_val)
                          [] label = "Max Value" -> FormatInt(end.max_val)
                          [] label = "Generation Time" -> elapsed],
                !.status_label =
                    <<"Generated ", FormatInt(ZInt(GRID_W * GRID_H)),
                      " values using ", algo_name>>])))

\* generate_visualization without the write of the substitute seed to the
\* seed entry
generate_visualization_keeps_text(self, drawn, elapsed) ==
    IF self.is_generating THEN self
    ELSE IF self.current_algorithm \notin DOMAIN ALGORITHMS
    THEN [self EXCEPT !.is_generating = TRUE,
                      !.status_label = <<"Generating...">>]
    ELSE Let(self.current_algorithm, LAMBDA algo_name :
         Let(SeedOf(self, drawn), LAMBDA seed :
         Let(Rows(ALGORITHMS[algo_name].func, ALGORITHMS[algo_name].color, 0,
                  [s |-> seed, last_value |-> seed,
                   min_val |-> Inf, max_val |-> ZInt(0), canvas |-> <<>>]),
             LAMBDA end :
             [self EXCEPT
                !.is_generating = FALSE,
                !.grid_canvas = end.canvas,
                !.stats_items =
                    [label \in StatLabels |->
                        CASE label = "Final Value" -> FormatInt(end.last_value)
                          [] label = "Iterations" -> FormatInt(ZInt(GRID_W * GRID_H))
                          [] label = "Min Value" -> FormatVal(end.min_val)
                          [] label = "Max Value" -> FormatInt(end.max_val)
                          [] label = "Generation Time" -> elapsed],
                !.status_label =
                    <<"Generated ", FormatInt(ZInt(GRID_W * GRID_H)),
                      " values using ", algo_name>>])))

\* generate_visualization without the reset of is_generating at its end
generate_visualization_keeps_flag(self, drawn, elapsed) ==
    IF self.is_generating THEN self
    ELSE IF self.current_algorithm \notin DOMAIN ALGORITHMS
    THEN [self EXCEPT !.is_generating = TRUE,
                      !.status_label = <<"Generating...">>]
    ELSE Let(self.current_algorithm, LAMBDA algo_name :
         Let(SeedOf(self, drawn), LAMBDA seed :
         Let(Rows(ALGORITHMS[algo_name].func, ALGORITHMS[algo_name].color, 0,
                  [s |-> seed, last_value |-> seed,
                   min_val |-> Inf, max_val |-> ZInt(0), canvas |-> <<>>]),
             LAMBDA end :
             [self EXCEPT
                !.is_generating = TRUE,
                !.seed_entry = IF IsIntText(self.seed_entry)
                               THEN self.seed_entry ELSE Str(drawn),
                !.grid_canvas = end.canvas,
                !.stats_items =
                    [label \in StatLabels |->
                        CASE label = "Final Value" -> FormatInt(end.last_value)
                          [] label = "Iterations" -> FormatInt(ZInt(GRID_W * GRID_H))
                          [] label = "Min Value" -> FormatVal(end.min_val)
                          [] label = "Max Value" -> FormatInt(end.max_val)
                          [] label = "Generation Time" -> elapsed],
                !.status_label =
                    <<"Generated ", FormatInt(ZInt(GRID_W * GRID_H)),
                      " values using ", algo_name>>])))

\* generate_visualization, drawn being what random.randint returns when it is
\* called and elapsed the text of the time measured.  An unregistered name
\* raises KeyError at the lookup, which ends the handler there.
generate_visualization(self, drawn, elapsed) ==
    IF self.is_generating THEN self
    ELSE IF self.current_algorithm \notin DOMAIN ALGORITHMS
    THEN [self EXCEPT !.is_generating = TRUE,
                      !.status_label = <<"Generating...">>]
    ELSE Let(self.current_algorithm, LAMBDA algo_name :
         Let(SeedOf(self, drawn), LAMBDA seed :
         Let(Rows(ALGORITHMS[algo_name].func, ALGORITHMS[algo_name].color, 0,
                  [s |-> seed, last_value |-> seed,
                   min_val |-> Inf, max_val |-> ZInt(0), canvas |-> <<>>]),
             LAMBDA end :
             [self EXCEPT
                !.is_generating = FALSE,
                !.seed_entry = IF IsIntText(self.seed_entry)
                               THEN self.seed_entry ELSE Str(drawn),
                !.grid_canvas = end.canvas,
                !.stats_items =
                    [label \in StatLabels |->
                        CASE label = "Final Value" -> FormatInt(end.last_value)
                          [] label = "Iterations" -> FormatInt(ZInt(GRID_W * GRID_H))
                          [] label = "Min Value" -> FormatVal(end.min_val)
                          [] label = "Max Value" -> FormatInt(end.max_val)
                          [] label = "Generation Time" -> elapsed],
                !.status_label =
                    <<"Generated ", FormatInt(ZInt(GRID_W * GRID_H)),
                      " values using ", algo_name>>])))

_randomize_seed(self, new_seed) ==
    [self EXCEPT !.seed_entry = Str(new_seed),
                 !.status_label = <<"Seed randomized to ", Str(new_seed)>>]

_clear_grid(self) ==
    [self EXCEPT !.grid_canvas = <<>>,
                 !.stats_items = [label \in StatLabels |-> Dash],
                 !.status_label = <<"Grid cleared">>]

\* on_click of an algorithm option
on_click(self, name) == [self EXCEPT !.current_algorithm = name]

(***************************************************************************)
(* The events.  What the user can type, what random.randint can return and *)
(* the grid's size are drawn from small sets.                              *)
(***************************************************************************)
MaxW == 3

MaxH == 2

MaxRuns == 2

\* texts typed into the seed entry: one that is no integer, a negative one,
\* zero
SeedTexts == {<<"a", "b", "c">>, <<"-", "7">>, <<"0">>}

\* results of random.randint(1, 999999): the two ends of its range
RandomDraws == {1, 999999}

\* the text of the measured time, f"{gen_time:.3f}s"
ElapsedTexts == {<<"0", ".", "0", "0", "1", "s">>}

\* a name ALGORITHMS does not have
UnknownNames == {"Mersenne Twister"}

\* no run is on display
NoRun == [algo |-> None, seed |-> ZInt(0), drawn |-> FALSE]

InitUI ==
    /\ current_algorithm = InitSelf.current_algorithm
    /\ is_generating = InitSelf.is_generating
    /\ seed_entry = InitSelf.seed_entry
    /\ status_label = InitSelf.status_label
    /\ grid_canvas = InitSelf.grid_canvas
    /\ stats_items = InitSelf.stats_items
    /\ last_run = NoRun
    /\ run_count = 0

IdleStep ==
    /\ step_func = None
    /\ step_state = None
    /\ step_count = 0
    /\ step_out = None

Init ==
    /\ GRID_W \in {0, MaxW}
    /\ GRID_H \in {0, MaxH}
    /\ InitUI
    /\ IdleStep

\* whether generate_visualization, called on self, reaches its end
Completes(self) ==
    ~self.is_generating /\ self.current_algorithm \in DOMAIN ALGORITHMS

\* what random.randint can return in a call on self: it is called only when
\* the seed entry's text is no integer
Draws(self) ==
    IF Completes(self) /\ ~IsIntText(self.seed_entry) THEN RandomDraws ELSE {None}

RunOf(self, drawn) ==
    [algo  |-> self.current_algorithm,
     seed  |-> SeedOf(self, drawn),
     drawn |-> ~IsIntText(self.seed_entry)]

\* <Return>, or a click on the generate button
Generate ==
    \E drawn \in Draws(Self), elapsed \in ElapsedTexts :
        /\ Becomes(generate_visualization(Self, drawn, elapsed))
        /\ last_run' = IF Completes(Self) THEN RunOf(Self, drawn) ELSE last_run
        /\ run_count' = IF Completes(Self) THEN Min(run_count + 1, MaxRuns)
                        ELSE run_count
        /\ UNCHANGED <<GRID_W, GRID_H, step_vars>>

\* <Control-r>, or a click on "Random Seed"
Randomize ==
    \E new_seed \in RandomDraws :
        /\ Becomes(_randomize_seed(Self, new_seed))
        /\ UNCHANGED <<GRID_W, GRID_H, last_run, run_count, step_vars>>

\* <Control-c>, or a click on "Clear Grid"
Clear ==
    /\ Becomes(_clear_grid(Self))
    /\ last_run' = NoRun
    /\ UNCHANGED <<GRID_W, GRID_H, run_count, step_vars>>

\* a click on one of the algorithm options
Select ==
    \E name \in DOMAIN ALGORITHMS :
        /\ Becomes(on_click(Self, name))
        /\ UNCHANGED <<GRID_W, GRID_H, last_run, run_count, step_vars>>

\* the user replaces the text of the seed entry
TypeSeed ==
    \E text \in SeedTexts \cup {InitSelf.seed_entry} :
        /\ Becomes([Self EXCEPT !.seed_entry = text])
        /\ UNCHANGED <<GRID_W, GRID_H, last_run, run_count, step_vars>>

Next == Generate \/ Randomize \/ Clear \/ Select \/ TypeSeed

Spec == Init /\ [][Next]_vars

(***************************************************************************)
(* The same program with a caller that sets the StringVar itself:          *)
(* current_algorithm is an attribute of the object, and set() takes any    *)
(* text.                                                                   *)
(***************************************************************************)
SetAlgorithm ==
    \E name \in UnknownNames :
        /\ Becomes([Self EXCEPT !.current_algorithm = name])
        /\ UNCHANGED <<GRID_W, GRID_H, last_run, run_count, step_vars>>

NextAnyName ==
    Generate \/ Randomize \/ Clear \/ Select \/ TypeSeed \/ SetAlgorithm

SpecAnyName == Init /\ [][NextAnyName]_vars

(***************************************************************************)
(* The step functions and value_to_color on their own: a step function is  *)
(* called on a seed, then on its own result, MaxIter times at most, and    *)
(* each value is coloured as the loop of generate_visualization colours    *)
(* it.                                                                     *)
(***************************************************************************)
MaxIter == 3

Two32 == ZShl(ZInt(1), 32)

Two64 == ZShl(ZInt(1), 64)

\* The seeds: zero, small ones of both signs, the ends of randint's range,
\* the bounds of 32 and of 64 bits and their neighbours, and three picked for
\* what a step makes of them (the greatest value Xorshift can return; values
\* of Multiply-with-Carry near a whole gray level).
StepSeeds ==
    {ZInt(0), ZInt(1), ZInt(-1), ZInt(-7), ZInt(-30), ZInt(12345), ZInt(999999),
     ZInt(1584200935),
     ZAdd(Two32, ZInt(-1)), Two32, ZAdd(Two32, ZInt(1)), ZMul(ZInt(-1), Two32),
     ZAdd(Two64, ZInt(-1)), Two64,
     ZAdd(ZShl(ZInt(1160566128), 32), ZInt(42949769)),
     ZAdd(ZShl(ZInt(753936492), 32), ZInt(107374423))}

StepFuncs == {ALGORITHMS[name].func : name \in DOMAIN ALGORITHMS}

ColorOf(func) ==
    ALGORITHMS[CHOOSE name \in DOMAIN ALGORITHMS : ALGORITHMS[name].func = func].color

InitStep ==
    /\ GRID_W = MaxW
    /\ GRID_H = MaxH
    /\ InitUI
    /\ step_func \in StepFuncs
    /\ step_state \in StepSeeds
    /\ step_count = 0
    /\ step_out = None

\* s, mod = algo_func(s); color = value_to_color(s, mod, algo_color)
Step ==
    /\ step_count < MaxIter
    /\ \E out \in {Apply(step_func, step_state)} :
          /\ step_out' = [s     |-> step_state,
                          value |-> out[1],
                          mod   |-> out[2],
                          gray  |-> base_gray(out[1], out[2]),
                          color |-> value_to_color(out[1], out[2], ColorOf(step_func))]
          /\ step_state' = out[1]
    /\ step_count' = step_count + 1
    /\ UNCHANGED <<GRID_W, GRID_H, ui_vars, last_run, run_count, step_func>>

NextStep == Step

SpecStep == InitStep /\ [][NextStep]_vars

(***************************************************************************)
(* The properties.                                                         *)
(***************************************************************************)
\* the statistics a run computes from its values
RunStats == {"Final Value", "Iterations", "Min Value", "Max Value"}

IsComma(c) == c = ","

NotComma(c) == ~IsComma(c)

\* the decimal text of an int
SeedText(z) == SelectSeq(FormatInt(z), NotComma)

\* the program as it is after __init__, with an algorithm selected and a seed
\* typed, and what it shows after one run
Fresh(algo_name, seed) ==
    [InitSelf EXCEPT !.current_algorithm = algo_name, !.seed_entry = SeedText(seed)]

FreshRun(algo_name, seed) == generate_visualization(Fresh(algo_name, seed), None, <<>>)

\* C1: whenever a run is on display, whatever was generated, cleared or
\* randomized before it, the grid's cells and colours and the final value,
\* iteration count, minimum and maximum shown are those a newly started
\* program shows after one run with the same algorithm and seed; so any two
\* runs with the same algorithm, seed and grid size show the same.
C1_HistoryFree ==
    last_run.algo # None =>
        \E fresh \in {FreshRun(last_run.algo, last_run.seed)} :
            /\ grid_canvas = fresh.grid_canvas
            /\ \A label \in RunStats : stats_items[label] = fresh.stats_items[label]

\* a run on display that replaced an earlier run's
C1_Witness ==
    /\ run_count >= 2
    /\ last_run.algo = "Xorshift"
    /\ last_run.drawn
    /\ Len(grid_canvas) = GRID_W * GRID_H
    /\ grid_canvas # <<>>


\* C2: a generation request made while the selected name is not one of
\* ALGORITHMS leaves the grid, the statistics, the status text and the
\* in-progress flag as they were.
C2_UnknownNameChangesNothing ==
    [][(current_algorithm \notin DOMAIN ALGORITHMS /\ Generate)
          => UNCHANGED <<grid_canvas, stats_items, status_label, is_generating>>]_vars

\* "#" and six hexadecimal digits: three channels of two digits each
IsColor(c) ==
    /\ Len(c) = 7
    /\ c[1] = "#"
    /\ \A i \in 2..7 : IsHexDigit(c[i])

ChannelsOf(c) == {NToInt(NHex(SubSeq(c, i, i + 1))) : i \in {2, 4, 6}}

\* C3: the colour value_to_color gives for a value a step returns, whatever
\* the algorithm and the seed (zero and negative ones included), is "#"
\* followed by three channels, each a whole number in 0..255.
C3_Channels ==
    step_count > 0 =>
        /\ IsColor(step_out.color)
        /\ \A ch \in ChannelsOf(step_out.color) : 0 <= ch /\ ch <= 255

\* the colour of the value Linear Congruential makes of a negative seed
C3_Witness ==
    /\ step_count > 0
    /\ step_func = "lcg"
    /\ step_out.s = ZInt(-30)
    /\ IsColor(step_out.color)

\* the recurrence with every intermediate value masked to 32 bits
XorshiftMasked(s) ==
    Let(ZAnd(ZXor(s, ZShl(s, 13)), Mask32), LAMBDA t1 :
    Let(ZAnd(ZXor(t1, ZShr(t1, 17)), Mask32), LAMBDA t2 :
        ZAnd(ZXor(t2, ZShl(t2, 5)), Mask32)))

\* C6: for every input state, the Xorshift step returns what the recurrence
\* with every intermediate value masked to 32 bits gives, and the range
\* 0xFFFFFFFF.
C6_MaskedRecurrence ==
    (step_count > 0 /\ step_func = "xorshift") =>
        /\ step_out.value = XorshiftMasked(step_out.s)
        /\ step_out.mod = Mask32

ZNeg(x) == ZMake(~x.neg, x.mag)

ZSub(x, y) == ZAdd(x, ZNeg(y))

ZAbs(x) == ZNat(x.mag)

\* the multiplier, increment and modulus of the two congruential steps
Congruence(func) ==
    IF func = "lcg"
    THEN [a |-> ZInt(9301), c |-> ZInt(49297), m |-> ZInt(233280)]
    ELSE [a |-> ZInt(16807), c |-> ZInt(0), m |-> ZInt(2147483647)]

\* a * s + c, in full
ExactSum(func, s) == ZAdd(ZMul(s, Congruence(func).a), Congruence(func).c)

\* C7 as claimed: for a state in the unsigned 64-bit domain, the two
\* congruential steps return the remainder of the sum wrapped at 64 bits.
C7_Wraps64 ==
    (/\ step_count > 0
     /\ step_func \in {"lcg", "park_miller"}
     /\ ~step_out.s.neg
     /\ ZCmp(step_out.s, Two64) < 0) =>
        step_out.value =
            ZMod(ZAnd(ExactSum(step_func, step_out.s), Mask64), Congruence(step_func).m)

\* C7, amended: for every integer state, the two congruential steps return
\* the remainder of the sum computed in full, wrapped at no width: a value v
\* with 0 <= v < m that differs from the whole a * s + c by a multiple of m.
C7_Exact ==
    (step_count > 0 /\ step_func \in {"lcg", "park_miller"}) =>
        \E m \in {Congruence(step_func).m} :
        \E d \in {ZSub(ExactSum(step_func, step_out.s), step_out.value)} :
        \E q \in {ZMake(d.neg, NDivMod(d.mag, m.mag).q)} :
            /\ step_out.mod = m
            /\ ~step_out.value.neg
            /\ ZCmp(step_out.value, m) < 0
            /\ ZMul(q, m) = d

\* Linear Congruential on 2^64 - 1, whose sum needs more than 64 bits
C7_Witness ==
    /\ step_count > 0
    /\ step_func = "lcg"
    /\ step_out.s = ZAdd(Two64, ZInt(-1))
    /\ step_out.value = ZInt(222652)

\* value * 200 + 20 * range: value / range * 200 + 20, times the range
GrayTimesRange(out) ==
    ZAdd(ZMul(out.value, ZInt(200)), ZMul(out.mod, ZInt(20)))

\* the floor of a / b, for a >= 0 and b > 0
FloorDiv(a, b) == NToInt(NDivMod(a.mag, b.mag).q)

\* what the claims say of Linear Congruential with seed 1
Scenario ==
    (step_func = "lcg" /\ step_out.s = ZInt(1)) =>
        /\ step_out.value = ZInt(58598)
        /\ step_out.mod = ZInt(233280)
        /\ step_out.gray = 70

\* C8 as claimed: the gray level is value / range * 200 + 20 rounded to the
\* nearest whole number (at most a half away from it), within 0..255.
C8_RoundsToNearest ==
    step_count > 0 =>
        /\ ZCmp(ZMul(ZInt(2),
                     ZAbs(ZSub(ZMul(ZInt(step_out.gray), step_out.mod),
                               GrayTimesRange(step_out)))),
                step_out.mod) <= 0
        /\ 0 <= step_out.gray /\ step_out.gray <= 255
        /\ Scenario

\* C8, amended: the gray level is the whole part of value / range * 200 + 20
\* as computed in double precision (three roundings), i.e. the floor of a
\* number within 2^-44 of it, never rounded up to the nearest; it lies in 20..220, so that capping it
\* to 0..255 changes nothing; and Linear Congruential with seed 1 gives 58598,
\* 233280 and 70.
C8_Truncates ==
    step_count > 0 =>
        \E x \in {ZShl(GrayTimesRange(step_out), 44)} :
        \E den \in {ZShl(step_out.mod, 44)} :
            /\ FloorDiv(ZSub(x, step_out.mod), den) <= step_out.gray
            /\ step_out.gray <= FloorDiv(ZAdd(x, step_out.mod), den)
            /\ 20 <= step_out.gray /\ step_out.gray <= 220
            /\ Scenario

\* Linear Congruential on 12345 gives 96382: 102.63..., whose whole part is 102
C8_Witness ==
    /\ step_count > 0
    /\ step_func = "lcg"
    /\ step_out.s = ZInt(12345)
    /\ step_out.value = ZInt(96382)
    /\ step_out.gray = 102

\* C9: a step, on any integer state, returns a value v with 0 <= v < range.
C9_BelowRange ==
    step_count > 0 =>
        /\ ~step_out.value.neg
        /\ ZCmp(step_out.value, step_out.mod) < 0

\* what n calls of a step give, each made on the value of the one before it
\* and the first on s: the pairs of value and range
RECURSIVE Iterates(_, _, _)
Iterates(func, s, n) ==
    IF n = 0 THEN <<>>
    ELSE Let(Apply(func, s), LAMBDA out : <<out>> \o Iterates(func, out[1], n - 1))

\* what the run on display computed
RunIterates ==
    Iterates(ALGORITHMS[last_run.algo].func, last_run.seed, GRID_W * GRID_H)

\* the number a statistic shows
StatValue(label) == IntOf(SelectSeq(stats_items[label], NotComma))

\* C4: while a run of one value or more is on display, the minimum shown is
\* the least and the maximum shown the greatest of the values the step gave in
\* that run, and the minimum is at most the maximum.
C4_MinMax ==
    (last_run.algo # None /\ GRID_W * GRID_H > 0) =>
        \E vs \in {RunIterates} :
            /\ \E i \in 1..Len(vs) :
                  /\ stats_items["Min Value"] = FormatInt(vs[i][1])
                  /\ \A j \in 1..Len(vs) : ZCmp(vs[i][1], vs[j][1]) <= 0
            /\ \E i \in 1..Len(vs) :
                  /\ stats_items["Max Value"] = FormatInt(vs[i][1])
                  /\ \A j \in 1..Len(vs) : ZCmp(vs[i][1], vs[j][1]) >= 0
            /\ ZCmp(StatValue("Min Value"), StatValue("Max Value")) <= 0

\* a run whose last value is neither its least nor its greatest, and whose
\* first value is not its least
C4_Witness ==
    /\ last_run.algo # None
    /\ GRID_W * GRID_H > 0
    /\ stats_items["Min Value"] # stats_items["Final Value"]
    /\ stats_items["Max Value"] # stats_items["Final Value"]
    /\ stats_items["Min Value"] # FormatInt(RunIterates[1][1])

\* C5: while a run is on display, the canvas holds GRID_W * GRID_H rectangles
\* made row by row; the one of cell (x, y) is the (y * GRID_W + x + 1)-th, lies
\* at that cell's place and has the colour of the (y * GRID_W + x + 1)-th
\* iterate of the step from the seed; the final value shown is the
\* (GRID_W * GRID_H)-th iterate and the iteration count shown is
\* GRID_W * GRID_H.
C5_RowMajor ==
    last_run.algo # None =>
        \E n \in {GRID_W * GRID_H} :
        \E vs \in {RunIterates} :
            /\ Len(grid_canvas) = n
            /\ \A x \in 0..(GRID_W - 1), y \in 0..(GRID_H - 1) :
                  \E k \in {y * GRID_W + x + 1} :
                      grid_canvas[k] =
                          [x0 |-> x * PIXEL, y0 |-> y * PIXEL,
                           x1 |-> (x + 1) * PIXEL, y1 |-> (y + 1) * PIXEL,
                           fill |-> value_to_color(vs[k][1], vs[k][2],
                                                   ALGORITHMS[last_run.algo].color)]
            /\ stats_items["Final Value"] =
                  FormatInt(IF n = 0 THEN last_run.seed ELSE vs[n][1])
            /\ stats_items["Iterations"] = FormatInt(ZInt(n))

\* a full grid on display, its second row begun after the first was ended
C5_Witness ==
    /\ last_run.algo = "Park-Miller"
    /\ GRID_W > 1
    /\ GRID_H > 1
    /\ Len(grid_canvas) = GRID_W * GRID_H
    /\ grid_canvas[GRID_W + 1].x0 = 0
    /\ grid_canvas[GRID_W + 1].y0 = PIXEL

\* the object's fields after a step
SelfNext ==
    [current_algorithm |-> current_algorithm',
     is_generating     |-> is_generating',
     seed_entry        |-> seed_entry',
     status_label      |-> status_label',
     grid_canvas       |-> grid_canvas',
     stats_items       |-> stats_items']

\* C10: a generation request made while the seed entry's text is no integer
\* runs to its end; after it the seed entry holds an integer in 1..999999, the
\* first cell has the colour of the step's value on that integer, and a
\* second request, made with the entry as it now is, gives the same grid and
\* statistics and leaves the entry as it is.
C10_Substitute ==
    [][(/\ ~IsIntText(seed_entry)
        /\ Completes(Self)
        /\ status_label'[1] = "Generated "
        /\ Generate) =>
           /\ IsIntText(seed_entry')
           /\ ~is_generating'
           /\ \E seed \in {IntOf(seed_entry')} :
                 /\ ZCmp(ZInt(1), seed) <= 0
                 /\ ZCmp(seed, ZInt(999999)) <= 0
                 /\ GRID_W * GRID_H > 0 =>
                       \E out \in {Apply(ALGORITHMS[current_algorithm].func, seed)} :
                           grid_canvas'[1].fill =
                               value_to_color(out[1], out[2],
                                              ALGORITHMS[current_algorithm].color)
           /\ \E again \in {generate_visualization(
                               SelfNext, None, stats_items'["Generation Time"])} :
                 /\ again.grid_canvas = grid_canvas'
                 /\ again.stats_items = stats_items'
                 /\ again.seed_entry = seed_entry']_vars

\* a run on display that was made with a substitute seed, the greatest that
\* can be drawn, which the seed entry shows
C10_Witness ==
    /\ last_run.algo # None
    /\ last_run.drawn
    /\ last_run.seed = ZInt(999999)
    /\ seed_entry = SeedText(last_run.seed)
    /\ grid_canvas # <<>>

\* C11: while a run of Xorshift from seed 0 with one cell or more is on
\* display, every value the step gave in that run is 0, every cell has the
\* colour of the value 0, and the final value, the minimum and the maximum
\* shown are all 0.
C11_ZeroFixedPoint ==
    (/\ last_run.algo = "Xorshift"
     /\ ZCmp(last_run.seed, ZInt(0)) = 0
     /\ GRID_W * GRID_H > 0) =>
        /\ \A i \in 1..Len(RunIterates) :
              /\ ZCmp(RunIterates[i][1], ZInt(0)) = 0
              /\ RunIterates[i][2] = Mask32
        /\ Len(grid_canvas) = GRID_W * GRID_H
        /\ \A k \in 1..Len(grid_canvas) :
              grid_canvas[k].fill = <<"#", "2", "b", "2", "3", "1", "2">>
        /\ stats_items["Final Value"] = <<"0">>
        /\ stats_items["Min Value"] = <<"0">>
        /\ stats_items["Max Value"] = <<"0">>

\* a full grid of Xorshift from the seed 0 typed into the entry, shown after
\* an earlier run
C11_Witness ==
    /\ last_run.algo = "Xorshift"
    /\ ZCmp(last_run.seed, ZInt(0)) = 0
    /\ seed_entry = <<"0">>
    /\ run_count >= 2
    /\ Len(grid_canvas) = MaxW * MaxH

\* C12: a generation request made while GRID_W or GRID_H is 0 runs to its
\* end without an error: it resets the in-progress flag and reports 0 values
\* generated, the canvas is empty after it, the iteration count shown is 0,
\* the final value shown is the seed itself, as no step was applied to it, the
\* minimum shown is the infinity it started at and the maximum shown the 0 it
\* started at.
C12_EmptyGrid ==
    [][((GRID_W = 0 \/ GRID_H = 0) /\ Generate) =>
           /\ ~is_generating'
           /\ status_label' = <<"Generated ", <<"0">>, " values using ",
                                current_algorithm>>
           /\ grid_canvas' = <<>>
           /\ stats_items'["Iterations"] = <<"0">>
           /\ IsIntText(seed_entry')
           /\ stats_items'["Final Value"] = FormatInt(IntOf(seed_entry'))
           /\ stats_items'["Min Value"] = <<"i", "n", "f">>
           /\ stats_items'["Max Value"] = <<"0">>]_vars

\* a run on display of a program whose grid has rows but no columns, made with
\* a substitute seed
C12_Witness ==
    /\ GRID_W = 0
    /\ GRID_H > 0
    /\ last_run.algo = "Multiply-with-Carry"
    /\ last_run.drawn
    /\ stats_items["Iterations"] = <<"0">>
    /\ stats_items["Min Value"] = <<"i", "n", "f">>
    /\ stats_items["Final Value"] = FormatInt(last_run.seed)

\* C13: in every state between two events the in-progress flag is_generating
\* is False and the selected name is one of ALGORITHMS, so that a generation
\* request made in that state is not ignored and runs to its end; the canvas
\* holds no rectangle or GRID_W * GRID_H of them, and when it holds any, a
\* run is on display and the rectangles are those of that run, the most
\* recent one, and no others.
C13_NeverStale ==
    /\ ~is_generating
    /\ Completes(Self)
    /\ Len(grid_canvas) \in {0, GRID_W * GRID_H}
    /\ grid_canvas # <<>> =>
          /\ last_run.algo # None
          /\ grid_canvas = FreshRun(last_run.algo, last_run.seed).grid_canvas

\* a full grid left on display by the second run or a later one, after which
\* the seed was randomized
C13_Witness ==
    /\ ~is_generating
    /\ run_count >= 2
    /\ GRID_W * GRID_H > 0
    /\ Len(grid_canvas) = GRID_W * GRID_H
    /\ status_label[1] = "Seed randomized to "
    /\ seed_entry # SeedText(last_run.seed)

====
